---- MODULE Spec2Model ----
(***************************************************************************)
(* A model of the three filesystem-notification monitors of the           *)
(* repository: inotify-example.c, dnotify-example.c and fanotify-lsof.c.   *)
(* The state is the state of one process running one of the programs; the *)
(* kernel (watch table, descriptors, the bytes a read returns, the signal  *)
(* delivered) is the environment and is drawn from small sets.             *)
(***************************************************************************)
EXTENDS Integers, Sequences, FiniteSets, TLC

VARIABLES
    prog,         \* which program runs: "inotify", "dnotify", "fanotify"
    argv,         \* the path arguments argv[1..argc-1]
    pc,           \* position of the process in main()
    exit_status,  \* "running", "EXIT_SUCCESS", "EXIT_FAILURE" or "killed"
    sigblocked,   \* signals blocked by sigprocmask
    pending,      \* blocked signals that were sent and wait to be read
    signal_fd,    \* descriptor returned by signalfd, 0 before
    inotify_fd,   \* descriptor returned by inotify_init / fanotify_init, 0 before
    monitors,     \* the filled entries of the monitors array
    n_monitors,   \* static int n_monitors
    i,            \* the loop index of the initialize / shutdown loops
    kwatches,     \* kernel side: the live watches / open directories, [id, inode]
    revents,      \* the descriptors poll reported readable
    fdsi,         \* the signalfd_siginfo read in this iteration
    buffer,       \* the bytes (fanotify: records) the last read returned
    length,       \* (long) value of length / buflen
    event,        \* byte offset of the event / metadata cursor in buffer
    decoded,      \* the events handed to __event_process since the last poll
    reports,      \* consumer reports printed since the last poll / read
    stderr_out,   \* the diagnostics written to stderr
    calls,        \* the release calls issued so far, in order
    in_loop,      \* TRUE once the main loop was entered
    ovf_prints    \* fanotify: "Queue overflow!" lines printed since the last read

vars == << prog, argv, pc, exit_status, sigblocked, pending, signal_fd,
           inotify_fd,
           monitors, n_monitors, i, kwatches, revents, fdsi, buffer, length,
           event, decoded, reports, stderr_out, calls, in_loop, ovf_prints >>

----------------------------------------------------------------------------
(* Bounds of the model *)

\* the longest argument list tried
MaxArgs == 2
\* the largest number of records the kernel puts in one read
MaxRecords == 2
\* the number of "Queue overflow!" lines after which the model stops counting
MaxOvfPrints == 2

----------------------------------------------------------------------------
(* Program constants *)

\* sizeof (struct inotify_event): wd, mask, cookie, len, 4 bytes each
IN_EVENT_DATA_LEN == 16
INOTIFY_BUFFER_SIZE == 8192
\* sizeof (struct fanotify_event_metadata)
FAN_EVENT_METADATA_LEN == 24
\* sizeof (struct signalfd_siginfo)
SIGINFO_SIZE == 128

SIGINT == 2
SIGTERM == 15
SIGHUP == 1
\* SIGRTMIN + 1 with glibc's SIGRTMIN of 34
DNOTIFY_SIGNAL == 35

FD_POLL_SIGNAL == 0
FD_POLL_INOTIFY == 1

\* the bits of linux/inotify.h the program tests, in the order it prints them
InFlagOrder == << "IN_ACCESS", "IN_ATTRIB", "IN_OPEN", "IN_CLOSE_WRITE",
                  "IN_CLOSE_NOWRITE", "IN_CREATE", "IN_DELETE", "IN_DELETE_SELF",
                  "IN_MODIFY", "IN_MOVE_SELF", "IN_MOVED_FROM", "IN_MOVED_TO" >>

InFlags == [ IN_ACCESS |-> 1, IN_MODIFY |-> 2, IN_ATTRIB |-> 4,
             IN_CLOSE_WRITE |-> 8, IN_CLOSE_NOWRITE |-> 16, IN_OPEN |-> 32,
             IN_MOVED_FROM |-> 64, IN_MOVED_TO |-> 128, IN_CREATE |-> 256,
             IN_DELETE |-> 512, IN_DELETE_SELF |-> 1024, IN_MOVE_SELF |-> 2048,
             IN_Q_OVERFLOW |-> 16384 ]

FanFlags == [ FAN_OPEN |-> 32, FAN_Q_OVERFLOW |-> 16384 ]

\* mask & bit
HasBit(mask, bit) == (mask \div bit) % 2 = 1

----------------------------------------------------------------------------
(* The file system the paths name *)

Paths == { "/tmp/a", "/tmp/b" }

\* the inode a path resolves to; inotify_add_watch keys its watches by inode
Inode(path) == IF path = "/tmp/a" THEN 1 ELSE 2

RECURSIVE SeqsUpTo(_, _)
SeqsUpTo(S, n) ==
    IF n = 0 THEN { << >> }
    ELSE LET shorter == SeqsUpTo(S, n - 1)
         IN  shorter \cup { Append(s, x) : s \in { t \in shorter : Len(t) = n - 1 }, x \in S }

ArgLists == SeqsUpTo(Paths, MaxArgs)

----------------------------------------------------------------------------
(* struct inotify_event as bytes (little endian), and its fields read back *)

Byte(n, k) == (n \div k) % 256

\* the four bytes of a 32-bit value; a negative int in two's complement
LE32(n) ==
    IF n >= 0
    THEN << Byte(n, 1), Byte(n, 256), Byte(n, 65536), Byte(n, 16777216) >>
    ELSE LET m == -(n + 1)
         IN  << 255 - Byte(m, 1), 255 - Byte(m, 256),
                255 - Byte(m, 65536), 255 - Byte(m, 16777216) >>

\* an int field (wd) read at byte offset off
S32At(buf, off) ==
    buf[off + 1] + buf[off + 2] * 256 + buf[off + 3] * 65536
    + (IF buf[off + 4] >= 128 THEN buf[off + 4] - 256 ELSE buf[off + 4]) * 16777216

\* a uint32_t field (mask, cookie, len) read at byte offset off, as (long).
\* A value of 2^31 or more is held as 2^31 - 1: it is compared only with
\* lengths of at most INOTIFY_BUFFER_SIZE, which it exceeds either way.
U32At(buf, off) ==
    IF buf[off + 4] >= 128 THEN 2147483647
    ELSE buf[off + 1] + buf[off + 2] * 256 + buf[off + 3] * 65536
         + buf[off + 4] * 16777216

RECURSIVE Zeros(_)
Zeros(n) == IF n <= 0 THEN << >> ELSE << 0 >> \o Zeros(n - 1)

\* one record as the kernel writes it: the header, then the name padded
\* with NUL bytes to len bytes
EncodeEvent(r) ==
    LE32(r.wd) \o LE32(r.mask) \o LE32(r.cookie) \o LE32(r.len)
    \o r.name \o Zeros(r.len - Len(r.name))

RECURSIVE EncodeAll(_)
EncodeAll(rs) == IF rs = << >> THEN << >> ELSE EncodeEvent(Head(rs)) \o EncodeAll(Tail(rs))

\* the fields of the struct inotify_event at the cursor
EventWd(buf, off) == S32At(buf, off)
EventMask(buf, off) == U32At(buf, off + 4)
EventCookie(buf, off) == U32At(buf, off + 8)
EventLen(buf, off) == U32At(buf, off + 12)

\* event->name as printf ("%s") reads it: the bytes up to the first NUL
RECURSIVE CString(_, _)
CString(buf, off) ==
    IF off + 1 > Len(buf) \/ buf[off + 1] = 0 THEN << >>
    ELSE << buf[off + 1] >> \o CString(buf, off + 1)

EventName(buf, off) == CString(buf, off + IN_EVENT_DATA_LEN)

----------------------------------------------------------------------------
(* The macros and helpers of inotify-example.c *)

\* size_t length compared with 0: true of every value but 0, of the
\* (size_t) -1 a failed read leaves included
SizeTPositive(len) == len # 0

\* IN_EVENT_OK without its (long) casts: length compared as a size_t
IN_EVENT_OK_unsigned(buf, ev, len) ==
    LET ulen == IF len < 0 THEN 2147483647 ELSE len
    IN  /\ ulen >= IN_EVENT_DATA_LEN
        /\ EventLen(buf, ev) >= IN_EVENT_DATA_LEN
        /\ EventLen(buf, ev) <= ulen

\* IN_EVENT_OK without the test of len against the remaining length
IN_EVENT_OK_unbounded(buf, ev, len) ==
    /\ len >= IN_EVENT_DATA_LEN
    /\ EventLen(buf, ev) >= IN_EVENT_DATA_LEN

\* IN_EVENT_OK without the lower bound on len
IN_EVENT_OK_nomin(buf, ev, len) ==
    /\ len >= IN_EVENT_DATA_LEN
    /\ EventLen(buf, ev) <= len

IN_EVENT_OK(buf, ev, len) ==
    /\ len >= IN_EVENT_DATA_LEN
    /\ EventLen(buf, ev) >= IN_EVENT_DATA_LEN
    /\ EventLen(buf, ev) <= len

\* the struct inotify_event the cursor points at, as __event_process gets it
DecodedEvent(buf, ev) ==
    [ at |-> ev, wd |-> EventWd(buf, ev), mask |-> EventMask(buf, ev),
      cookie |-> EventCookie(buf, ev), len |-> EventLen(buf, ev) ]

\* IN_EVENT_NEXT: the new length and the new cursor
IN_EVENT_NEXT_length(buf, ev, len) == len - EventLen(buf, ev)
IN_EVENT_NEXT_event(buf, ev) == ev + EventLen(buf, ev)

\* the backend id a monitors entry holds: wd (inotify) or fd (dnotify)
IdOf(m) == IF prog = "inotify" THEN m.wd ELSE m.fd

\* a scan that takes the first entry without comparing the ids
MonitorIndex_first(ms, id) == IF Len(ms) > 0 THEN 1 ELSE 0

\* the linear scan of __event_process: the first entry holding id, 0 if none
MonitorIndex(ms, id) ==
    IF \E k \in 1..Len(ms) : IdOf(ms[k]) = id
    THEN CHOOSE k \in 1..Len(ms) :
            /\ IdOf(ms[k]) = id
            /\ \A j \in 1..(k - 1) : IdOf(ms[j]) # id
    ELSE 0

\* the flags of a mask that __event_process prints
PrintedKinds(mask) ==
    { InFlagOrder[k] : k \in { j \in 1..Len(InFlagOrder) : HasBit(mask, InFlags[InFlagOrder[j]]) } }

\* event->name has no NUL within the bytes the read returned: printf reads
\* on into bytes of the stack buffer that this read did not write
NameOverruns(buf, ev) ==
    \A k \in (ev + IN_EVENT_DATA_LEN + 1)..Len(buf) : buf[k] # 0

\* what such bytes may hold, up to their first NUL
StaleTails == { << >>, << 63 >> }

\* __event_process of inotify-example.c: what it prints for the event at ev;
\* stale is what follows the bytes read, used when the name runs into it
In_event_process(ms, buf, ev, stale) ==
    LET k == MonitorIndex(ms, EventWd(buf, ev))
        mask == EventMask(buf, ev)
    IN  IF k = 0 THEN << >>
        ELSE << [ path   |-> ms[k].path,
                  named  |-> EventLen(buf, ev) > 0,
                  name   |-> IF EventLen(buf, ev) > 0
                             THEN EventName(buf, ev)
                                  \o (IF NameOverruns(buf, ev) THEN stale ELSE << >>)
                             ELSE << >>,
                  kinds  |-> PrintedKinds(mask),
                  cookie |-> IF HasBit(mask, InFlags.IN_MOVED_FROM) \/ HasBit(mask, InFlags.IN_MOVED_TO)
                             THEN EventCookie(buf, ev) ELSE 0 ] >>

\* a faulty variant: the first entry is reported whatever ssi_fd is
Dn_event_process_first(ms, info) ==
    IF Len(ms) = 0 THEN << >>
    ELSE << [ path |-> ms[1].path, named |-> FALSE, name |-> << >>,
              kinds |-> { }, cookie |-> 0 ] >>

\* __event_process of dnotify-example.c: what it prints for the signal info
Dn_event_process(ms, info) ==
    LET k == MonitorIndex(ms, info.ssi_fd)
    IN  IF k = 0 THEN << >>
        ELSE << [ path |-> ms[k].path, named |-> FALSE, name |-> << >>,
                  kinds |-> { }, cookie |-> 0 ] >>

\* inotify_add_watch in the kernel: the wd of the watch already set on the
\* inode, else a new one
KernelAddWatch(kw, inode) ==
    IF \E w \in kw : w.inode = inode
    THEN (CHOOSE w \in kw : w.inode = inode).id
    ELSE Cardinality(kw) + 1

\* a faulty variant: nothing is blocked
SigMask_none == { }

\* the signals __initialize_signals blocks
SigMask == IF prog = "dnotify" THEN { SIGINT, SIGTERM, DNOTIFY_SIGNAL }
           ELSE { SIGINT, SIGTERM }

\* a test that forgets SIGTERM
IsTermination_sigint(signo) == signo = SIGINT

\* the signals that break the main loop
IsTermination(signo) == signo = SIGINT \/ signo = SIGTERM

----------------------------------------------------------------------------
(* What the kernel may hand to a read *)

\* ids an event may carry: those of the watches and one no watch has
EventIds == 1..(MaxArgs + 1)

ChildCreated(wd) ==
    [ wd |-> wd, mask |-> InFlags.IN_CREATE, cookie |-> 0, len |-> 16, name |-> << 120 >> ]
SelfDeleted(wd) ==
    [ wd |-> wd, mask |-> InFlags.IN_DELETE_SELF, cookie |-> 0, len |-> 0, name |-> << >> ]
QueueOverflow ==
    [ wd |-> -1, mask |-> InFlags.IN_Q_OVERFLOW, cookie |-> 0, len |-> 0, name |-> << >> ]
\* a child whose 13-byte name ends in the byte 16
OddName ==
    [ wd |-> 1, mask |-> InFlags.IN_OPEN, cookie |-> 0, len |-> 16,
      name |-> << 97, 97, 97, 97, 97, 97, 97, 97, 97, 97, 97, 97, 16 >> ]
\* a child moved in, with a 16-byte name, padded to 32
MovedIn ==
    [ wd |-> 2, mask |-> InFlags.IN_MOVED_TO, cookie |-> 7, len |-> 32,
      name |-> << 98, 98, 98, 98, 98, 98, 98, 98, 98, 98, 98, 98, 98, 98, 98, 98 >> ]

KernelEvents ==
    { ChildCreated(w) : w \in EventIds } \cup { SelfDeleted(w) : w \in EventIds }
    \cup { QueueOverflow, OddName, MovedIn }

KernelBatches == SeqsUpTo(KernelEvents, MaxRecords)

\* the numbers of bytes by which a read may fall short of whole records
\* (a corrupt or truncated stream)
Cuts == { 0, 8, 24 }

\* the buffers a successful read may fill
Truncations(bytes) ==
    { SubSeq(bytes, 1, Len(bytes) - c) : c \in { d \in Cuts : d = 0 \/ d < Len(bytes) } }

\* buffers the kernel would not write: a len that is no multiple of 16 (the
\* cursor leaves the 4-byte alignment), and a len beyond any buffer
CorruptBuffers ==
    { EncodeEvent([ wd |-> 1, mask |-> InFlags.IN_MODIFY, cookie |-> 0,
                    len |-> 17, name |-> << 120 >> ]),
      LE32(1) \o LE32(InFlags.IN_MODIFY) \o LE32(0) \o LE32(8 * INOTIFY_BUFFER_SIZE) }

DeliveredBuffers ==
    UNION { Truncations(EncodeAll(b)) : b \in KernelBatches } \cup CorruptBuffers

\* what char buffer[] may hold when the read wrote nothing into it
StaleBuffers == { EncodeEvent(ChildCreated(1)) }

\* a read of inotify_fd: the value returned and the buffer afterwards
ReadOutcomes ==
    { [ n |-> -1, bytes |-> s ] : s \in StaleBuffers }
    \cup { [ n |-> Len(b), bytes |-> b ] :
             b \in { d \in DeliveredBuffers : Len(d) <= INOTIFY_BUFFER_SIZE } }

\* the signal numbers a control message may carry: the two that end the
\* loop, the dnotify one, and SIGHUP for "any other"
CtlSignals == { SIGINT, SIGTERM, SIGHUP, DNOTIFY_SIGNAL }

\* fanotify: the records of one read
FanOpen == [ event_len |-> FAN_EVENT_METADATA_LEN, mask |-> FanFlags.FAN_OPEN, fd |-> 4, pid |-> 7 ]
FanOverflow == [ event_len |-> FAN_EVENT_METADATA_LEN, mask |-> FanFlags.FAN_Q_OVERFLOW, fd |-> -1, pid |-> 0 ]
FanBatches == SeqsUpTo({ FanOpen, FanOverflow }, MaxRecords)

----------------------------------------------------------------------------
(* The initial state: a process about to run main() *)

NoSignal == [ ssi_signo |-> 0, ssi_fd |-> 0 ]

Init ==
    /\ prog \in { "inotify", "dnotify", "fanotify" }
    /\ argv \in (IF prog = "fanotify" THEN { << >> } ELSE ArgLists)
    /\ pc = (IF prog = "fanotify" THEN "fan_init" ELSE "main")
    /\ exit_status = "running"
    /\ sigblocked = { }
    /\ pending = { }
    /\ signal_fd = 0
    /\ inotify_fd = 0
    /\ monitors = << >>
    /\ n_monitors = 0
    /\ i = 0
    /\ kwatches = { }
    /\ revents = { }
    /\ fdsi = NoSignal
    /\ buffer = << >>
    /\ length = 0
    /\ event = 0
    /\ decoded = << >>
    /\ reports = << >>
    /\ stderr_out = { }
    /\ calls = << >>
    /\ in_loop = FALSE
    /\ ovf_prints = 0

\* fprintf (stderr, msg); exit (EXIT_FAILURE);
ExitFailure(msg) ==
    /\ pc' = "exited"
    /\ exit_status' = "EXIT_FAILURE"
    /\ stderr_out' = stderr_out \cup { msg }

\* a faulty variant: the failure is reported and the main loop entered
OnRegistrationFailure_noexit(msg) ==
    /\ pc' = "poll"
    /\ exit_status' = exit_status
    /\ stderr_out' = stderr_out \cup { msg }

\* a path could not be registered: the diagnostic, then exit (EXIT_FAILURE)
OnRegistrationFailure(msg) == ExitFailure(msg)

\* a faulty variant: the short read is reported and polling goes on
OnControlReadError_noexit(msg) ==
    /\ pc' = "poll"
    /\ exit_status' = exit_status
    /\ stderr_out' = stderr_out \cup { msg }

\* read (signal_fd) != sizeof (fdsi): the diagnostic, then exit (EXIT_FAILURE)
OnControlReadError(msg) == ExitFailure(msg)

----------------------------------------------------------------------------
(* Start-up, shared by inotify-example.c and dnotify-example.c *)

\* a faulty variant: argv[0] alone passes the check
TooFewArguments_none(argc) == argc < 1

\* if (argc < 2)
TooFewArguments(argc) == argc < 2

\* main: the argument check
Main ==
    /\ pc = "main"
    /\ IF TooFewArguments(Len(argv) + 1)
       THEN ExitFailure("Usage")
       ELSE /\ pc' = "initialize_signals"
            /\ UNCHANGED << exit_status, stderr_out >>
    /\ UNCHANGED << prog, pending, argv, sigblocked, signal_fd, inotify_fd, monitors,
                    n_monitors, i, kwatches, revents, fdsi, buffer, length,
                    event, decoded, reports, calls, in_loop, ovf_prints >>

\* __initialize_signals, first half: sigprocmask (SIG_BLOCK, &sigmask, NULL),
\* and main's test of the result when it fails
InitializeSignals ==
    /\ pc = "initialize_signals"
    /\ \E ok \in BOOLEAN :
          IF ok
          THEN /\ sigblocked' = SigMask
               /\ pc' = "signalfd"
               /\ UNCHANGED << exit_status, stderr_out >>
          ELSE /\ ExitFailure("Couldn't initialize signals")
               /\ UNCHANGED sigblocked
    /\ UNCHANGED << prog, pending, argv, signal_fd, inotify_fd, monitors,
                    n_monitors, i, kwatches, revents, fdsi, buffer, length,
                    event, decoded, reports, calls, in_loop, ovf_prints >>

\* __initialize_signals, second half: signalfd (-1, &sigmask, 0), and main's
\* test of the result
CreateSignalFd ==
    /\ pc = "signalfd"
    /\ \E ok \in BOOLEAN :
          IF ok
          THEN /\ signal_fd' = 3
               /\ pc' = (IF prog = "inotify" THEN "initialize_inotify" ELSE "initialize_dnotify")
               /\ UNCHANGED << exit_status, stderr_out >>
          ELSE /\ ExitFailure("Couldn't initialize signals")
               /\ UNCHANGED signal_fd
    /\ UNCHANGED << prog, pending, argv, sigblocked, inotify_fd, monitors,
                    n_monitors, i, kwatches, revents, fdsi, buffer, length,
                    event, decoded, reports, calls, in_loop, ovf_prints >>

\* the places of main() at which SignalArrives takes a signal: every step
\* of start-up. In the main loop the process looks at its signals in poll
\* only, so a signal sent during an iteration or while the process sleeps
\* is taken by Poll.
ArrivalPoints ==
    { "main", "initialize_signals", "signalfd", "initialize_inotify",
      "add_watch", "initialize_dnotify" }

\* the environment sends SIGINT or SIGTERM to the process. Blocked by
\* sigprocmask, the signal stays pending for signal_fd; not blocked, it
\* takes its default action and ends the process there and then.
SignalArrives ==
    /\ prog \in { "inotify", "dnotify" }
    /\ pc \in ArrivalPoints
    /\ \E s \in { SIGINT, SIGTERM } :
          IF s \in sigblocked
          THEN /\ pending' = pending \cup { s }
               /\ UNCHANGED << pc, exit_status >>
          ELSE /\ pc' = "exited"
               /\ exit_status' = "killed"
               /\ UNCHANGED pending
    /\ UNCHANGED << prog, argv, sigblocked, signal_fd, inotify_fd, monitors,
                    n_monitors, i, kwatches, revents, fdsi, buffer, length,
                    event, decoded, reports, stderr_out, calls, in_loop, ovf_prints >>

\* __initialize_inotify up to the allocation of the monitors array
InitializeInotify ==
    /\ pc = "initialize_inotify"
    /\ \E ok \in BOOLEAN :
          IF ok
          THEN /\ inotify_fd' = 4
               /\ n_monitors' = Len(argv)
               /\ i' = 0
               /\ pc' = "add_watch"
               /\ UNCHANGED << exit_status, stderr_out >>
          ELSE /\ ExitFailure("Couldn't initialize inotify")
               /\ UNCHANGED << inotify_fd, n_monitors, i >>
    /\ UNCHANGED << prog, pending, argv, sigblocked, signal_fd, monitors, kwatches,
                    revents, fdsi, buffer, length, event, decoded, reports, calls,
                    in_loop, ovf_prints >>

\* the entry __initialize_inotify fills for argv[k + 1] when the kernel
\* answers inotify_add_watch with wd
NewWatchEntry(k, wd) == [ path |-> argv[k + 1], wd |-> wd ]

\* one iteration of the loop of __initialize_inotify
AddWatch ==
    /\ pc = "add_watch"
    /\ i < n_monitors
    /\ \E ok \in BOOLEAN :
          IF ok
          THEN LET wd == KernelAddWatch(kwatches, Inode(argv[i + 1]))
               IN  /\ monitors' = Append(monitors, NewWatchEntry(i, wd))
                   /\ kwatches' = kwatches \cup { [ id |-> wd, inode |-> Inode(argv[i + 1]) ] }
                   /\ i' = i + 1
                   /\ pc' = (IF i + 1 < n_monitors THEN "add_watch" ELSE "poll")
                   /\ UNCHANGED << exit_status, stderr_out >>
          ELSE /\ monitors' = Append(monitors, NewWatchEntry(i, -1))
               /\ OnRegistrationFailure("Couldn't add monitor")
               /\ UNCHANGED << kwatches, i >>
    /\ UNCHANGED << prog, pending, argv, sigblocked, signal_fd, inotify_fd, n_monitors,
                    revents, fdsi, buffer, length, event, decoded, reports, calls,
                    in_loop, ovf_prints >>

\* one iteration of the loop of __initialize_dnotify: open, then the two fcntl
Dn_AddMonitor ==
    /\ pc = "initialize_dnotify"
    /\ n_monitors' = Len(argv)
    /\ i < n_monitors'
    /\ \E r \in { "ok", "open", "fcntl" } :
          LET fd == IF r = "open" THEN -1 ELSE signal_fd + 1 + i
          IN  /\ monitors' = Append(monitors, [ path |-> argv[i + 1], fd |-> fd ])
              /\ IF r = "ok"
                 THEN /\ kwatches' = kwatches \cup { [ id |-> fd, inode |-> Inode(argv[i + 1]) ] }
                      /\ i' = i + 1
                      /\ pc' = (IF i + 1 < n_monitors' THEN "initialize_dnotify" ELSE "poll")
                      /\ UNCHANGED << exit_status, stderr_out >>
                 ELSE /\ OnRegistrationFailure(IF r = "open" THEN "Couldn't open directory"
                                               ELSE "Couldn't setup directory notifications")
                      /\ UNCHANGED << kwatches, i >>
    /\ UNCHANGED << prog, pending, argv, sigblocked, signal_fd, inotify_fd,
                    revents, fdsi, buffer, length, event, decoded, reports, calls,
                    in_loop, ovf_prints >>

----------------------------------------------------------------------------
(* The main loop *)

\* the entries of fds[]
PolledFds == IF prog = "inotify" THEN { FD_POLL_SIGNAL, FD_POLL_INOTIFY }
             ELSE { FD_POLL_SIGNAL }

\* the control messages a read of signal_fd may return
CtlMessages ==
    { [ ssi_signo |-> s, ssi_fd |-> 0 ] : s \in CtlSignals \ { DNOTIFY_SIGNAL } }
    \cup (IF prog = "dnotify"
          THEN { [ ssi_signo |-> DNOTIFY_SIGNAL, ssi_fd |-> f ] :
                    f \in (signal_fd + 1)..(signal_fd + 1 + MaxArgs) }
          ELSE { })

\* blocked signals are queued on signal_fd: while one waits, that is what
\* the next read returns (standard signals before the real-time one)
ReadableMessages ==
    IF pending # { }
    THEN { [ ssi_signo |-> s, ssi_fd |-> 0 ] : s \in pending }
    ELSE CtlMessages

\* what poll may report readable: signal_fd is among them while one of the
\* signals in waiting is pending
ReadySets(waiting) ==
    { rv \in (SUBSET PolledFds) \ { { } } : waiting # { } => FD_POLL_SIGNAL \in rv }

\* a faulty variant: the signal block ends the iteration
AfterSignalBlock_continue == "poll"

\* where the loop body goes after its signal block
AfterSignalBlock == IF FD_POLL_INOTIFY \in revents THEN "read_inotify" ELSE "poll"

\* a faulty variant: the break is missing and the loop body goes on
BreakLoop_fallthrough == AfterSignalBlock

\* where "break" out of for (;;) leads: the clean-exit code after the loop
BreakLoop == IF prog = "inotify" THEN "shutdown_inotify" ELSE "shutdown_dnotify"

\* poll (fds, FD_POLL_MAX, -1): the start of one loop iteration. The
\* block-scoped fdsi, buffer and length of the iteration before are gone,
\* and decoded / reports start again for this iteration. The blocked
\* signals sent since the last poll join the pending ones.
Poll ==
    /\ pc = "poll"
    /\ in_loop' = TRUE
    /\ \E ok \in BOOLEAN :
          IF ok
          THEN \E sent \in SUBSET ({ SIGINT, SIGTERM } \cap sigblocked) :
               \E rv \in ReadySets(pending \cup sent) :
                  /\ pending' = pending \cup sent
                  /\ revents' = rv
                  /\ pc' = (IF FD_POLL_SIGNAL \in rv THEN "read_signal" ELSE "read_inotify")
                  /\ fdsi' = NoSignal
                  /\ buffer' = << >>
                  /\ length' = 0
                  /\ event' = 0
                  /\ decoded' = << >>
                  /\ reports' = << >>
                  /\ UNCHANGED << exit_status, stderr_out >>
          ELSE /\ ExitFailure("Couldn't poll()")
               /\ UNCHANGED << pending, revents, fdsi, buffer, length, event,
                               decoded, reports >>
    /\ UNCHANGED << prog, argv, sigblocked, signal_fd, inotify_fd, monitors,
                    n_monitors, i, kwatches, calls, ovf_prints >>

\* inotify-example.c, "Signal received?": the read of the control message
\* and what main does with it
In_ReadSignal ==
    /\ pc = "read_signal"
    /\ prog = "inotify"
    /\ \E n \in { SIGINFO_SIZE, -1 }, msg \in ReadableMessages :
          IF n # SIGINFO_SIZE
          THEN /\ OnControlReadError("Couldn't read signal, wrong size read")
               /\ UNCHANGED << fdsi, i, pending >>
          ELSE /\ fdsi' = msg
               /\ pending' = pending \ { msg.ssi_signo }
               /\ IF IsTermination(msg.ssi_signo)
                  THEN /\ pc' = BreakLoop
                       /\ i' = 0
                       /\ UNCHANGED << exit_status, stderr_out >>
                  ELSE /\ pc' = AfterSignalBlock
                       /\ stderr_out' = stderr_out \cup { "Received unexpected signal" }
                       /\ UNCHANGED << exit_status, i >>
    /\ UNCHANGED << prog, argv, sigblocked, signal_fd, inotify_fd, monitors,
                    n_monitors, kwatches, revents, buffer, length, event,
                    decoded, reports, calls, in_loop, ovf_prints >>

\* inotify-example.c, "Inotify event received?": the read of the buffer
ReadInotify ==
    /\ pc = "read_inotify"
    /\ \E r \in ReadOutcomes :
          /\ buffer' = r.bytes
          /\ length' = r.n
          /\ event' = 0
          /\ pc' = (IF SizeTPositive(r.n) THEN "decode" ELSE "poll")
    /\ UNCHANGED << prog, pending, argv, exit_status, sigblocked, signal_fd, inotify_fd,
                    monitors, n_monitors, i, kwatches, revents, fdsi, decoded, reports,
                    stderr_out, calls, in_loop, ovf_prints >>

\* one iteration of while (IN_EVENT_OK (event, length))
In_EventStep ==
    /\ pc = "decode"
    /\ IN_EVENT_OK(buffer, event, length)
    /\ decoded' = Append(decoded, DecodedEvent(buffer, event))
    /\ \E stale \in (IF NameOverruns(buffer, event) THEN StaleTails ELSE { << >> }) :
          reports' = reports \o In_event_process(monitors, buffer, event, stale)
    /\ length' = IN_EVENT_NEXT_length(buffer, event, length)
    /\ event' = IN_EVENT_NEXT_event(buffer, event)
    /\ UNCHANGED << prog, pending, argv, pc, exit_status, sigblocked, signal_fd,
                    inotify_fd, monitors, n_monitors, i, kwatches, revents,
                    fdsi, buffer, stderr_out, calls, in_loop, ovf_prints >>

\* the while loop ends: back to the top of for (;;)
In_DecodeEnd ==
    /\ pc = "decode"
    /\ ~ IN_EVENT_OK(buffer, event, length)
    /\ pc' = "poll"
    /\ UNCHANGED << prog, pending, argv, exit_status, sigblocked, signal_fd, inotify_fd,
                    monitors, n_monitors, i, kwatches, revents, fdsi, buffer,
                    length, event, decoded, reports, stderr_out, calls, in_loop,
                    ovf_prints >>

\* dnotify-example.c, "Signal received?"
Dn_ReadSignal ==
    /\ pc = "read_signal"
    /\ prog = "dnotify"
    /\ \E n \in { SIGINFO_SIZE, -1 }, msg \in ReadableMessages :
          IF n # SIGINFO_SIZE
          THEN /\ OnControlReadError("Couldn't read signal, wrong size read")
               /\ UNCHANGED << fdsi, i, decoded, reports, pending >>
          ELSE /\ fdsi' = msg
               /\ pending' = pending \ { msg.ssi_signo }
               /\ IF IsTermination(msg.ssi_signo)
                  THEN /\ pc' = BreakLoop
                       /\ i' = 0
                       /\ UNCHANGED << exit_status, stderr_out, decoded, reports >>
                  ELSE IF msg.ssi_signo = DNOTIFY_SIGNAL
                  THEN /\ decoded' = Append(decoded, msg)
                       /\ reports' = reports \o Dn_event_process(monitors, msg)
                       /\ pc' = "poll"
                       /\ UNCHANGED << exit_status, stderr_out, i >>
                  ELSE /\ pc' = "poll"
                       /\ stderr_out' = stderr_out \cup { "Received unexpected signal" }
                       /\ UNCHANGED << exit_status, i, decoded, reports >>
    /\ UNCHANGED << prog, argv, sigblocked, signal_fd, inotify_fd, monitors,
                    n_monitors, kwatches, revents, buffer, length, event,
                    calls, in_loop, ovf_prints >>

----------------------------------------------------------------------------
(* Clean exit *)

\* a faulty variant: the watch of the entry is not removed
In_ReleaseCalls_nodereg(k) ==
    << [ op |-> "free", entry |-> k, arg |-> 0 ] >>

\* the calls one iteration of the loop of __shutdown_inotify makes for entry k
In_ReleaseCalls(k) ==
    << [ op |-> "free", entry |-> k, arg |-> 0 ],
       [ op |-> "inotify_rm_watch", entry |-> k, arg |-> monitors[k].wd ] >>

\* one iteration of the loop of __shutdown_inotify
ShutdownInotifyStep ==
    /\ pc = "shutdown_inotify"
    /\ i < n_monitors
    /\ calls' = calls \o In_ReleaseCalls(i + 1)
    /\ kwatches' = { w \in kwatches : w.id # monitors[i + 1].wd }
    /\ i' = i + 1
    /\ UNCHANGED << prog, pending, argv, pc, exit_status, sigblocked, signal_fd,
                    inotify_fd, monitors, n_monitors, revents, fdsi, buffer,
                    length, event, decoded, reports, stderr_out, in_loop, ovf_prints >>

\* the end of __shutdown_inotify: free (monitors); close (inotify_fd);
ShutdownInotifyClose ==
    /\ pc = "shutdown_inotify"
    /\ ~ (i < n_monitors)
    /\ calls' = calls \o << [ op |-> "free_monitors", entry |-> 0, arg |-> 0 ],
                            [ op |-> "close", entry |-> 0, arg |-> inotify_fd ] >>
    /\ kwatches' = { }
    /\ pc' = "shutdown_signals"
    /\ UNCHANGED << prog, pending, argv, exit_status, sigblocked, signal_fd, inotify_fd,
                    monitors, n_monitors, i, revents, fdsi, buffer, length,
                    event, decoded, reports, stderr_out, in_loop, ovf_prints >>

\* the calls one iteration of the loop of __shutdown_dnotify makes for entry k
Dn_ReleaseCalls(k) ==
    << [ op |-> "free", entry |-> k, arg |-> 0 ],
       [ op |-> "fcntl_F_NOTIFY_0", entry |-> k, arg |-> monitors[k].fd ],
       [ op |-> "close", entry |-> k, arg |-> monitors[k].fd ] >>

\* one iteration of the loop of __shutdown_dnotify
ShutdownDnotifyStep ==
    /\ pc = "shutdown_dnotify"
    /\ i < n_monitors
    /\ calls' = calls \o Dn_ReleaseCalls(i + 1)
    /\ kwatches' = { w \in kwatches : w.id # monitors[i + 1].fd }
    /\ i' = i + 1
    /\ UNCHANGED << prog, pending, argv, pc, exit_status, sigblocked, signal_fd,
                    inotify_fd, monitors, n_monitors, revents, fdsi, buffer,
                    length, event, decoded, reports, stderr_out, in_loop, ovf_prints >>

\* the end of __shutdown_dnotify: free (monitors);
ShutdownDnotifyEnd ==
    /\ pc = "shutdown_dnotify"
    /\ ~ (i < n_monitors)
    /\ calls' = Append(calls, [ op |-> "free_monitors", entry |-> 0, arg |-> 0 ])
    /\ pc' = "shutdown_signals"
    /\ UNCHANGED << prog, pending, argv, exit_status, sigblocked, signal_fd, inotify_fd,
                    monitors, n_monitors, i, kwatches, revents, fdsi, buffer,
                    length, event, decoded, reports, stderr_out, in_loop, ovf_prints >>

\* __shutdown_signals, the "Exiting" line and return EXIT_SUCCESS
ShutdownSignals ==
    /\ pc = "shutdown_signals"
    /\ calls' = Append(calls, [ op |-> "close", entry |-> 0, arg |-> signal_fd ])
    /\ pc' = "exited"
    /\ exit_status' = "EXIT_SUCCESS"
    /\ UNCHANGED << prog, pending, argv, sigblocked, signal_fd, inotify_fd, monitors,
                    n_monitors, i, kwatches, revents, fdsi, buffer, length,
                    event, decoded, reports, stderr_out, in_loop, ovf_prints >>

----------------------------------------------------------------------------
(* fanotify-lsof.c *)

\* the struct fanotify_event_metadata at byte offset ev of buf
FanMetadata(buf, ev) == buf[(ev \div FAN_EVENT_METADATA_LEN) + 1]

FAN_EVENT_OK(buf, ev, len) ==
    /\ len >= FAN_EVENT_METADATA_LEN
    /\ FanMetadata(buf, ev).event_len >= FAN_EVENT_METADATA_LEN
    /\ FanMetadata(buf, ev).event_len <= len

\* CHK (fan = fanotify_init (...), -1)
FanInit ==
    /\ pc = "fan_init"
    /\ \E ok \in BOOLEAN :
          IF ok
          THEN /\ inotify_fd' = 3
               /\ pc' = "fan_mark"
               /\ UNCHANGED << exit_status, stderr_out >>
          ELSE /\ ExitFailure("fanotify_init")
               /\ UNCHANGED inotify_fd
    /\ UNCHANGED << prog, pending, argv, sigblocked, signal_fd, monitors, n_monitors, i,
                    kwatches, revents, fdsi, buffer, length, event, decoded, reports,
                    calls, in_loop, ovf_prints >>

\* CHK (fanotify_mark (...), -1)
FanMark ==
    /\ pc = "fan_mark"
    /\ \E ok \in BOOLEAN :
          IF ok
          THEN /\ pc' = "fan_read"
               /\ UNCHANGED << exit_status, stderr_out >>
          ELSE ExitFailure("fanotify_mark")
    /\ UNCHANGED << prog, pending, argv, sigblocked, signal_fd, inotify_fd, monitors,
                    n_monitors, i, kwatches, revents, fdsi, buffer, length,
                    event, decoded, reports, calls, in_loop, ovf_prints >>

\* CHK (buflen = read (fan, buf, sizeof (buf)), -1); metadata = buf
FanRead ==
    /\ pc = "fan_read"
    /\ in_loop' = TRUE
    /\ \E failed \in BOOLEAN, batch \in FanBatches :
          IF failed
          THEN /\ ExitFailure("read")
               /\ UNCHANGED << buffer, length, event, decoded, reports, ovf_prints >>
          ELSE /\ buffer' = batch
               /\ length' = Len(batch) * FAN_EVENT_METADATA_LEN
               /\ event' = 0
               /\ decoded' = << >>
               /\ reports' = << >>
               /\ ovf_prints' = 0
               /\ pc' = "fan_loop"
               /\ UNCHANGED << exit_status, stderr_out >>
    /\ UNCHANGED << prog, pending, argv, sigblocked, signal_fd, inotify_fd, monitors,
                    n_monitors, i, kwatches, revents, fdsi, calls >>

\* one iteration of while (FAN_EVENT_OK (metadata, buflen))
FanEventStep ==
    /\ pc = "fan_loop"
    /\ FAN_EVENT_OK(buffer, event, length)
    /\ LET metadata == FanMetadata(buffer, event)
       IN  IF HasBit(metadata.mask, FanFlags.FAN_Q_OVERFLOW)
           THEN \* printf ("Queue overflow!\n"); continue;
                /\ ovf_prints' = (IF ovf_prints < MaxOvfPrints THEN ovf_prints + 1 ELSE ovf_prints)
                /\ UNCHANGED << pc, exit_status, stderr_out, decoded, reports, length, event >>
           ELSE \E linked \in BOOLEAN :
                   IF linked
                   THEN /\ reports' = Append(reports, [ path |-> "opened", pid |-> metadata.pid,
                                                         closed |-> metadata.fd ])
                        /\ decoded' = Append(decoded, metadata)
                        /\ length' = length - metadata.event_len
                        /\ event' = event + metadata.event_len
                        /\ UNCHANGED << pc, exit_status, stderr_out, ovf_prints >>
                   ELSE /\ ExitFailure("readlink")
                        /\ UNCHANGED << decoded, reports, length, event, ovf_prints >>
    /\ UNCHANGED << prog, pending, argv, sigblocked, signal_fd, inotify_fd, monitors,
                    n_monitors, i, kwatches, revents, fdsi, buffer, calls,
                    in_loop >>

\* the while loop ends: back to the read
FanLoopEnd ==
    /\ pc = "fan_loop"
    /\ ~ FAN_EVENT_OK(buffer, event, length)
    /\ pc' = "fan_read"
    /\ UNCHANGED << prog, pending, argv, exit_status, sigblocked, signal_fd, inotify_fd,
                    monitors, n_monitors, i, kwatches, revents, fdsi, buffer,
                    length, event, decoded, reports, stderr_out, calls, in_loop,
                    ovf_prints >>

----------------------------------------------------------------------------
(* The specifications *)

Next ==
    \/ Main
    \/ InitializeSignals
    \/ CreateSignalFd
    \/ SignalArrives
    \/ InitializeInotify
    \/ AddWatch
    \/ Dn_AddMonitor
    \/ Poll
    \/ In_ReadSignal
    \/ ReadInotify
    \/ In_EventStep
    \/ In_DecodeEnd
    \/ Dn_ReadSignal
    \/ ShutdownInotifyStep
    \/ ShutdownInotifyClose
    \/ ShutdownDnotifyStep
    \/ ShutdownDnotifyEnd
    \/ ShutdownSignals
    \/ FanInit
    \/ FanMark
    \/ FanRead
    \/ FanEventStep
    \/ FanLoopEnd

Spec == Init /\ [][Next]_vars

\* the steps the process takes by itself once it runs: none of them blocks
\* (poll and the reads may block for ever, so they are not in this set)
Running ==
    \/ In_EventStep
    \/ In_DecodeEnd
    \/ ShutdownInotifyStep
    \/ ShutdownInotifyClose
    \/ ShutdownDnotifyStep
    \/ ShutdownDnotifyEnd
    \/ ShutdownSignals
    \/ FanEventStep
    \/ FanLoopEnd

FairSpec == Spec /\ WF_vars(Running)

\* the steps of start-up: none of them waits for the environment
StartUp ==
    \/ Main
    \/ InitializeSignals
    \/ CreateSignalFd
    \/ InitializeInotify
    \/ AddWatch
    \/ Dn_AddMonitor

\* poll does not sleep while a signal is pending on signal_fd, and a read
\* of a descriptor poll reported readable does not block
Awake ==
    \/ pending # { } /\ Poll
    \/ In_ReadSignal
    \/ Dn_ReadSignal
    \/ ReadInotify

\* the process is scheduled whenever it does not wait in poll or read
SignalFairSpec == FairSpec /\ WF_vars(StartUp) /\ WF_vars(Awake)

----------------------------------------------------------------------------
(* The properties *)

\* the offsets of the records of buf when each is a header followed by a
\* name field of the declared length
RECURSIVE RecordOffsets(_, _)
RecordOffsets(buf, off) ==
    IF off + IN_EVENT_DATA_LEN > Len(buf) THEN << >>
    ELSE << off >> \o RecordOffsets(buf, off + IN_EVENT_DATA_LEN + EventLen(buf, off))

RECURSIVE RecordsEnd(_, _)
RecordsEnd(buf, off) ==
    IF off + IN_EVENT_DATA_LEN > Len(buf) THEN off
    ELSE RecordsEnd(buf, off + IN_EVENT_DATA_LEN + EventLen(buf, off))

\* buf is a concatenation of whole records
WellFormed(buf) == RecordsEnd(buf, 0) = Len(buf)

\* the read of this iteration succeeded and filled buffer
ReadFilledBuffer == prog = "inotify" /\ length # -1 /\ event + length = Len(buffer)

\* the decode loop of this iteration has run to its end
DecodeDone ==
    /\ prog = "inotify"
    /\ pc = "decode"
    /\ ~ IN_EVENT_OK(buffer, event, length)

\* the process returned from main
Stopped == pc = "exited" /\ exit_status = "EXIT_SUCCESS"

\* C1: decoding a buffer of N whole records hands exactly N events to the
\* consumer side, in input order: the events decoded are those at the
\* offsets of the N records.
C1_DecodesEveryRecord ==
    (DecodeDone /\ ReadFilledBuffer /\ WellFormed(buffer))
        => [ k \in 1..Len(decoded) |-> decoded[k].at ] = RecordOffsets(buffer, 0)

\* the fanotify records up to and including the one at the cursor that
\* carry the overflow indicator
FanOverflowsSeen ==
    { k \in 1..Len(buffer) :
        /\ (k - 1) * FAN_EVENT_METADATA_LEN <= event
        /\ HasBit(buffer[k].mask, FanFlags.FAN_Q_OVERFLOW) }

\* C2: an overflow record yields exactly one QueueOverflow report and the
\* loop moves on: at no time are there more overflow reports than overflow
\* records met so far.
C2_OneOverflowReport ==
    (prog = "fanotify" /\ pc = "fan_loop")
        => ovf_prints <= Cardinality(FanOverflowsSeen)

\* the call that deregisters one entry from the backend
DeregOp == IF prog = "inotify" THEN "inotify_rm_watch" ELSE "fcntl_F_NOTIFY_0"

DeregCalls(k) == { j \in 1..Len(calls) : calls[j].op = DeregOp /\ calls[j].entry = k }

\* every path argument has one entry, and that entry was deregistered with
\* its own id exactly once; nothing else was deregistered
ReleasedOncePerPath ==
    /\ Len(monitors) = Len(argv)
    /\ \A k \in 1..Len(argv) :
          /\ monitors[k].path = argv[k]
          /\ Cardinality(DeregCalls(k)) = 1
          /\ \A j \in DeregCalls(k) : calls[j].arg = IdOf(monitors[k])
    /\ \A j \in 1..Len(calls) : calls[j].op = DeregOp => calls[j].entry \in 1..Len(argv)

\* C3: a control message carrying SIGINT or SIGTERM ends the loop in the
\* iteration that reads it (nothing is read or reported after it), the
\* process then reaches Stopped, and at Stopped every registered path was
\* deregistered exactly once.
C3_InterruptStops ==
    /\ [][ (pc = "read_signal" /\ fdsi'.ssi_signo \in { SIGINT, SIGTERM })
              => /\ pc' \in { "shutdown_inotify", "shutdown_dnotify" }
                 /\ UNCHANGED << buffer, decoded, reports >> ]_vars
    /\ (fdsi.ssi_signo \in { SIGINT, SIGTERM }) ~> Stopped
    /\ [](Stopped => ReleasedOncePerPath)

C3_Witness ==
    /\ Stopped
    /\ Len(argv) = 2
    /\ fdsi.ssi_signo = SIGTERM
    /\ ReleasedOncePerPath

\* the records of buffer that carry the id of entry k
RecordsFor(k) ==
    { j \in 1..Len(RecordOffsets(buffer, 0)) :
        EventWd(buffer, RecordOffsets(buffer, 0)[j]) = monitors[k].wd }

ReportsFor(k) == { j \in 1..Len(reports) : reports[j].path = monitors[k].path }

\* C4: every record carrying the id of a registered path P, about a child
\* or about P itself, gives exactly one report with path P, and the reports
\* about P itself carry no name.
C4_EveryRecordReported ==
    (DecodeDone /\ ReadFilledBuffer /\ WellFormed(buffer))
        => \A k \in 1..Len(monitors) :
              /\ Cardinality(ReportsFor(k)) = Cardinality(RecordsFor(k))
              /\ Cardinality({ j \in ReportsFor(k) : ~ reports[j].named })
                   = Cardinality({ j \in RecordsFor(k) :
                                     EventLen(buffer, RecordOffsets(buffer, 0)[j]) = 0 })

\* buffer holds one whole record, with a child name, for a registered id
LoneChildRecord ==
    /\ ReadFilledBuffer
    /\ WellFormed(buffer)
    /\ Len(RecordOffsets(buffer, 0)) = 1
    /\ EventLen(buffer, 0) > 0
    /\ \E k \in 1..Len(monitors) : monitors[k].wd = EventWd(buffer, 0)

\* C5: a lone record with a child name for a registered id gives exactly one
\* report, for the path holding that id, with the record's name and kinds;
\* with /tmp/a and /tmp/b registered, "created x" for /tmp/a's id gives
\* the one report (/tmp/a, {IN_CREATE}, "x").
C5_LoneRecordReportedOnce ==
    /\ (DecodeDone /\ LoneChildRecord)
          => /\ Len(reports) = 1
             /\ \A k \in 1..Len(monitors) :
                   monitors[k].wd = EventWd(buffer, 0) => reports[1].path = monitors[k].path
             /\ reports[1].named
             /\ reports[1].name = EventName(buffer, 0)
             /\ reports[1].kinds = PrintedKinds(EventMask(buffer, 0))
    /\ (DecodeDone /\ argv = << "/tmp/a", "/tmp/b" >>
          /\ ReadFilledBuffer /\ buffer = EncodeEvent(ChildCreated(1)))
          => reports = << [ path |-> "/tmp/a", named |-> TRUE, name |-> << 120 >>,
                            kinds |-> { "IN_CREATE" }, cookie |-> 0 ] >>

C5_Witness ==
    /\ DecodeDone
    /\ argv = << "/tmp/a", "/tmp/b" >>
    /\ ReadFilledBuffer
    /\ buffer = EncodeEvent(ChildCreated(1))
    /\ Len(reports) = 1
    /\ reports[1].path = "/tmp/a"

\* the record at the cursor declares more bytes than remain in the buffer
OverlongAtCursor ==
    /\ ReadFilledBuffer
    /\ length >= IN_EVENT_DATA_LEN
    /\ EventLen(buffer, event) > length

\* C6 as stated: a record whose declared length exceeds the remaining
\* buffer length is a fatal MalformedRecord: once the decoder has met it
\* the service has ended with failure status.
C6_OverlongIsFatal ==
    (OverlongAtCursor /\ pc # "decode") => (pc = "exited" /\ exit_status = "EXIT_FAILURE")

\* C6 as the code has it: a record whose declared length exceeds the
\* remaining length is not handed on and nothing more of the buffer is; the
\* loop ends without a diagnostic and the service goes back to poll, running.
C6_OverlongEndsDecoding ==
    /\ [][ (pc = "decode" /\ OverlongAtCursor)
              => /\ pc' = "poll"
                 /\ exit_status' = "running"
                 /\ UNCHANGED << decoded, reports, stderr_out, calls >> ]_vars
    /\ []((OverlongAtCursor /\ pc = "decode")
              => \A k \in 1..Len(decoded) : decoded[k].at # event)

C6_Witness ==
    /\ OverlongAtCursor
    /\ pc = "poll"
    /\ exit_status = "running"
    /\ \A k \in 1..Len(decoded) : decoded[k].at # event

\* an entry that was registered with the backend
Live(k) == IdOf(monitors[k]) >= 0

\* C7: the registry never holds two live entries with the same backend id.
C7_UniqueBackendIds ==
    prog \in { "inotify", "dnotify" }
        => \A j, k \in 1..Len(monitors) :
              (j # k /\ Live(j) /\ Live(k)) => IdOf(monitors[j]) # IdOf(monitors[k])

RegistrationDiagnostics ==
    { "Couldn't add monitor", "Couldn't open directory",
      "Couldn't setup directory notifications" }

RegistrationFailed == stderr_out \cap RegistrationDiagnostics # { }

\* C8: when the registration of a path fails the process has exited with
\* failure status without entering the main loop or reporting an event; the
\* main loop runs only with every path of the list registered.
C8_AllOrNothing ==
    /\ RegistrationFailed
          => /\ pc = "exited"
             /\ exit_status = "EXIT_FAILURE"
             /\ ~ in_loop
             /\ reports = << >>
             /\ decoded = << >>
    /\ (in_loop /\ prog \in { "inotify", "dnotify" })
          => /\ Len(monitors) = Len(argv)
             /\ \A k \in 1..Len(monitors) : Live(k)

C8_Witness ==
    /\ RegistrationFailed
    /\ Len(monitors) = 2
    /\ Live(1)
    /\ pc = "exited"
    /\ ~ in_loop

\* C9 as stated: after a failed read of the notification handle the
\* dispatcher does not stay running: the process has exited with failure.
C9_ReadErrorIsFatal ==
    (prog = "inotify" /\ length = -1 /\ pc # "decode")
        => (pc = "exited" /\ exit_status = "EXIT_FAILURE")

\* C9 as the code has it: a failed read of the notification handle hands
\* no event on and writes no diagnostic; the decode loop ends at once and
\* the dispatcher goes back to poll, still running.
C9_ReadErrorIgnored ==
    /\ [][ (prog = "inotify" /\ pc = "decode" /\ length = -1)
              => /\ pc' = "poll"
                 /\ exit_status' = "running"
                 /\ UNCHANGED << decoded, reports, stderr_out, calls >> ]_vars
    /\ []((prog = "inotify" /\ length = -1) => (decoded = << >> /\ reports = << >>))
    /\ [][ (prog = "inotify" /\ pc = "read_inotify" /\ length' = -1) => pc' = "decode" ]_vars

C9_Witness ==
    /\ prog = "inotify"
    /\ length = -1
    /\ pc = "poll"
    /\ exit_status = "running"

ControlReadFailed == "Couldn't read signal, wrong size read" \in stderr_out

\* C10 as stated: after a short control read the process has exited with
\* failure status and its watches were released by cleanup before the exit.
C10_ControlErrorCleansUp ==
    ControlReadFailed
        => /\ pc = "exited"
           /\ exit_status = "EXIT_FAILURE"
           /\ ReleasedOncePerPath

\* C10 as the code has it: after a short control read the process has
\* exited with failure status, nothing was handed on in that iteration and
\* nothing happens afterwards; no release call was made before the exit.
C10_ControlErrorExits ==
    /\ [](ControlReadFailed
            => /\ pc = "exited"
               /\ exit_status = "EXIT_FAILURE"
               /\ decoded = << >>
               /\ reports = << >>
               /\ calls = << >>
               /\ Cardinality(kwatches) >= 1)
    /\ [][ pc # "exited" ]_vars

C10_Witness ==
    /\ ControlReadFailed
    /\ pc = "exited"
    /\ exit_status = "EXIT_FAILURE"
    /\ Len(monitors) = 2
    /\ calls = << >>

----------------------------------------------------------------------------
(* C11 *)

\* __shutdown_inotify / __shutdown_dnotify have returned
ReleaseAllDone == pc = "shutdown_signals" \/ Stopped

RECURSIVE ReleaseLoopCalls(_)
\* the calls the loop of __shutdown_inotify / __shutdown_dnotify makes from
\* entry k on, with the n_monitors and monitors of the current state
ReleaseLoopCalls(k) ==
    IF k > n_monitors THEN << >>
    ELSE (IF prog = "inotify" THEN In_ReleaseCalls(k) ELSE Dn_ReleaseCalls(k))
         \o ReleaseLoopCalls(k + 1)

\* the calls one whole run of __shutdown_inotify / __shutdown_dnotify makes
\* when entered in the current state
ReleaseAllCalls ==
    ReleaseLoopCalls(1)
    \o << [ op |-> "free_monitors", entry |-> 0, arg |-> 0 ] >>
    \o (IF prog = "inotify"
        THEN << [ op |-> "close", entry |-> 0, arg |-> inotify_fd ] >>
        ELSE << >>)

\* C11: once release-all has run, the registry is empty and a second run of
\* it would issue no deregistration, free or close at all
C11_ReleaseAllIdempotent ==
    ReleaseAllDone => n_monitors = 0 /\ ReleaseAllCalls = << >>

----------------------------------------------------------------------------
(* C12 *)

\* the control message read in this iteration is SIGINT or SIGTERM
TerminationRead == fdsi.ssi_signo \in { SIGINT, SIGTERM }

\* C12: once SIGINT or SIGTERM has been read no report is printed any more:
\* the iteration that read it has read no buffer and printed nothing, also
\* when the inotify descriptor was ready too, so a monitor of one path that
\* gets the signal first stops cleanly with no report; and from the read on
\* the program only walks the clean-exit code, with no poll, read or decode
C12_NoReportAfterInterrupt ==
    /\ [](TerminationRead =>
             /\ buffer = << >> /\ decoded = << >> /\ reports = << >>
             /\ pc \in { "shutdown_inotify", "shutdown_dnotify",
                         "shutdown_signals", "exited" }
             /\ exit_status # "EXIT_FAILURE")
    /\ [][TerminationRead => TerminationRead' /\ reports' = reports]_vars

\* both descriptors were ready, SIGINT was read, and the monitor of one path
\* has stopped cleanly
C12_Witness ==
    /\ Stopped
    /\ prog = "inotify"
    /\ Len(monitors) = 1
    /\ revents = { FD_POLL_SIGNAL, FD_POLL_INOTIFY }
    /\ fdsi.ssi_signo = SIGINT
    /\ reports = << >>

----------------------------------------------------------------------------
(* C13 *)

\* C13: run without a path argument, inotify-example and dnotify-example
\* get no further than the argument check: they write the usage line and
\* exit with EXIT_FAILURE (unless a signal ends the process first), and no
\* signal is blocked, no descriptor opened and no path registered
C13_EmptyPathListIsUsageError ==
    (prog \in { "inotify", "dnotify" } /\ argv = << >>) =>
        /\ pc \in { "main", "exited" }
        /\ pc = "exited" => exit_status \in { "EXIT_FAILURE", "killed" }
        /\ exit_status = "EXIT_FAILURE" => stderr_out = { "Usage" }
        /\ exit_status # "EXIT_FAILURE" => stderr_out = { }
        /\ sigblocked = { } /\ pending = { }
        /\ signal_fd = 0 /\ inotify_fd = 0
        /\ monitors = << >> /\ n_monitors = 0 /\ kwatches = { }
        /\ calls = << >> /\ ~ in_loop

\* dnotify-example run without a path has exited with the usage error
C13_Witness ==
    /\ prog = "dnotify"
    /\ argv = << >>
    /\ pc = "exited"
    /\ exit_status = "EXIT_FAILURE"
    /\ "Usage" \in stderr_out

----------------------------------------------------------------------------
(* C14 *)

\* the stage of the clean exit a release call belongs to: 1 for the calls
\* on registry entries and the monitors array, 2 for the close of the
\* notification descriptor, 3 for the close of signal_fd
ShutdownStage(c) ==
    IF c.op = "close" /\ c.entry = 0
    THEN (IF c.arg = signal_fd THEN 3 ELSE 2)
    ELSE 1

\* the stages of which a call has been made
StagesDone == { ShutdownStage(calls[j]) : j \in 1..Len(calls) }

\* every registry entry has had its deregistration call
AllDeregistered == \A k \in 1..n_monitors : DeregCalls(k) # { }

\* C14: the clean exit keeps one order: the deregistration of every entry,
\* then the close of the notification descriptor (inotify_fd), then the
\* close of signal_fd, and only then the process has stopped; and once it
\* has stopped it takes no step at all
C14_ShutdownOrder ==
    /\ [](\A j, k \in 1..Len(calls) :
             j < k => ShutdownStage(calls[j]) <= ShutdownStage(calls[k]))
    /\ []((2 \in StagesDone \/ 3 \in StagesDone) => AllDeregistered)
    /\ [](3 \in StagesDone => (prog = "inotify" => 2 \in StagesDone))
    /\ [](3 \in StagesDone <=> Stopped)
    /\ [](calls # << >> => pc \in { "shutdown_inotify", "shutdown_dnotify",
                                    "shutdown_signals", "exited" })
    /\ [][~ Stopped]_vars

\* inotify-example has stopped after releasing two entries
C14_Witness ==
    /\ Stopped
    /\ prog = "inotify"
    /\ n_monitors = 2
    /\ Len(calls) = 7
    /\ calls[6] = [ op |-> "close", entry |-> 0, arg |-> inotify_fd ]
    /\ calls[7] = [ op |-> "close", entry |-> 0, arg |-> signal_fd ]

----------------------------------------------------------------------------
(* C15 *)

\* SIGINT and SIGTERM are blocked
TerminationBlocked == { SIGINT, SIGTERM } \subseteq sigblocked

\* the step reads a pending signal from signal_fd and breaks the loop on it
ReadsPending ==
    /\ pc = "read_signal"
    /\ fdsi'.ssi_signo \in pending
    /\ pending' = pending \ { fdsi'.ssi_signo }
    /\ pc' \in { "shutdown_inotify", "shutdown_dnotify" }

\* C15: SIGINT and SIGTERM are blocked before signal_fd exists and before
\* any path is registered, so from the creation of signal_fd on a SIGINT or
\* SIGTERM sent to the process, also during registration, does not kill it
\* and is not lost: it stays pending until a read of signal_fd returns it,
\* the first such read of the main loop does, and the process then goes
\* through the clean exit (unless it has exited on an error of its own)
C15_SignalsKeptForControlRead ==
    /\ [](signal_fd # 0 => TerminationBlocked)
    /\ [](prog \in { "inotify", "dnotify" } =>
             ((monitors # << >> \/ kwatches # { } \/ inotify_fd # 0) =>
                 TerminationBlocked /\ signal_fd # 0))
    /\ [](exit_status = "killed" => signal_fd = 0 /\ ~ TerminationBlocked)
    /\ [](pending # { } => TerminationBlocked)
    /\ [][pending \subseteq pending' \/ ReadsPending]_vars
    /\ [][(pending # { } /\ pc = "read_signal" /\ pc' # "exited") => ReadsPending]_vars
    /\ ((pending # { } /\ signal_fd # 0) ~> (Stopped \/ exit_status = "EXIT_FAILURE"))

\* a SIGTERM sent during registration, after the first path was registered,
\* has not killed the process and is pending
C15_Witness ==
    /\ pc \in { "add_watch", "initialize_dnotify" }
    /\ i = 1
    /\ Len(monitors) = 1
    /\ n_monitors = 2
    /\ pending = { SIGTERM }
    /\ exit_status = "running"
    /\ signal_fd # 0

----------------------------------------------------------------------------
(* C16 *)

\* no entry of the registry holds the watch descriptor of the event
Unmatched(e) == \A k \in 1..Len(monitors) : monitors[k].wd # e.wd

\* the events handed on in this iteration that are records of the buffer
\* and match no entry
UnmatchedRecords ==
    { k \in 1..Len(decoded) :
        /\ Unmatched(decoded[k])
        /\ \E j \in 1..Len(RecordOffsets(buffer, 0)) :
              RecordOffsets(buffer, 0)[j] = decoded[k].at }

\* C16: an event no registry entry matches is dropped and nothing else
\* happens: it gets no report and no diagnostic, the monitor keeps running,
\* and the records that follow it in the buffer are still handed on
C16_UnmatchedDropped ==
    (DecodeDone /\ ReadFilledBuffer /\ WellFormed(buffer)) =>
        /\ Len(reports)
              = Cardinality({ k \in 1..Len(decoded) : ~ Unmatched(decoded[k]) })
        /\ "Received unexpected signal" \notin stderr_out => stderr_out = { }
        /\ exit_status = "running"
        /\ \A k \in UnmatchedRecords :
              \A j \in 1..Len(RecordOffsets(buffer, 0)) :
                 RecordOffsets(buffer, 0)[j] > decoded[k].at =>
                    \E d \in 1..Len(decoded) :
                       decoded[d].at = RecordOffsets(buffer, 0)[j]

----------------------------------------------------------------------------
(* C17 *)

\* the step reads a whole control message whose signal is none of SIGINT,
\* SIGTERM and (dnotify) DNOTIFY_SIGNAL
ReadsUnexpectedSignal ==
    /\ pc = "read_signal"
    /\ pc' # "exited"
    /\ fdsi'.ssi_signo \notin { SIGINT, SIGTERM }
    /\ prog = "dnotify" => fdsi'.ssi_signo # DNOTIFY_SIGNAL

\* C17: a control message with any other signal is reported on stderr and
\* nothing else: the monitor keeps running with its registry as it was, and
\* in inotify-example, when poll reported inotify_fd readable too, the
\* buffer is read and decoded in the same iteration
C17_UnexpectedSignalNotFatal ==
    /\ [][ReadsUnexpectedSignal =>
             /\ stderr_out' = stderr_out \cup { "Received unexpected signal" }
             /\ exit_status' = "running"
             /\ monitors' = monitors /\ kwatches' = kwatches
             /\ reports' = reports
             /\ pc' = (IF prog = "inotify" /\ FD_POLL_INOTIFY \in revents
                       THEN "read_inotify" ELSE "poll")]_vars
    /\ [][pc = "read_inotify" =>
             /\ pc' = (IF SizeTPositive(length') THEN "decode" ELSE "poll")
             /\ exit_status' = "running"]_vars
    /\ [](fdsi.ssi_signo = SIGHUP => "Received unexpected signal" \in stderr_out)

\* inotify-example has read SIGHUP and, in the same iteration, a buffer of
\* which it has reported an event
C17_Witness ==
    /\ prog = "inotify"
    /\ fdsi.ssi_signo = SIGHUP
    /\ "Received unexpected signal" \in stderr_out
    /\ pc = "decode"
    /\ Len(reports) >= 1
    /\ exit_status = "running"

----------------------------------------------------------------------------
(* C18 *)

\* the step reads a whole control message that carries DNOTIFY_SIGNAL
ReadsDnotifySignal ==
    /\ prog = "dnotify"
    /\ pc = "read_signal"
    /\ pc' # "exited"
    /\ fdsi'.ssi_signo = DNOTIFY_SIGNAL

\* "Received event in directory" for the path of entry k
DirectoryReport(k) ==
    [ path |-> monitors[k].path, named |-> FALSE, name |-> << >>,
      kinds |-> { }, cookie |-> 0 ]

\* C18: dnotify-example takes the directory of a DNOTIFY_SIGNAL message
\* from ssi_fd of the message itself: it reads no buffer, prints one line
\* for the entry that holds this descriptor, nothing if no entry holds it,
\* and goes back to poll, still running
C18_DnotifyResolvedFromPayload ==
    /\ [][ReadsDnotifySignal =>
             /\ LET holders == { k \in 1..Len(monitors) :
                                    monitors[k].fd = fdsi'.ssi_fd }
                IN  IF holders = { }
                    THEN reports' = reports
                    ELSE \E k \in holders :
                            reports' = Append(reports, DirectoryReport(k))
             /\ buffer' = buffer /\ length' = length /\ event' = event
             /\ stderr_out' = stderr_out
             /\ monitors' = monitors /\ kwatches' = kwatches
             /\ exit_status' = "running"
             /\ pc' = "poll"]_vars
    /\ [](prog = "dnotify" => buffer = << >> /\ length = 0 /\ inotify_fd = 0)

\* dnotify-example watches two different directories and has reported the
\* second for a DNOTIFY_SIGNAL message that carries its descriptor
C18_Witness ==
    /\ prog = "dnotify"
    /\ pc = "poll"
    /\ exit_status = "running"
    /\ Len(monitors) = 2
    /\ monitors[1].path # monitors[2].path
    /\ fdsi = [ ssi_signo |-> DNOTIFY_SIGNAL, ssi_fd |-> monitors[2].fd ]
    /\ reports = << DirectoryReport(2) >>

----------------------------------------------------------------------------
(* C19 *)

\* the step hands one event to __event_process
Dispatches == prog = "inotify" /\ pc = "decode" /\ decoded' # decoded

\* C19: the decode loop of inotify-example ends whatever the read returned:
\* every iteration that hands an event on takes at least the 16 bytes of a
\* header off the remaining length, which never falls below 0, so at most
\* (bytes read) / 16 events are handed on from one read
C19_DecodeLoopTerminates ==
    /\ [][Dispatches =>
             /\ Len(decoded') = Len(decoded) + 1
             /\ length' + IN_EVENT_DATA_LEN <= length
             /\ length' >= 0
             /\ event' + length' = event + length]_vars
    /\ [](prog = "inotify" =>
             /\ Len(decoded) * IN_EVENT_DATA_LEN <= event
             /\ decoded # << >> => event <= event + length)
    /\ ((prog = "inotify" /\ pc = "decode") ~> (pc # "decode"))

\* the loop has ended after handing on two events from a buffer that is not
\* a sequence of whole records
C19_Witness ==
    /\ DecodeDone
    /\ ReadFilledBuffer
    /\ ~ WellFormed(buffer)
    /\ Len(decoded) = 2
    /\ length >= 0

----------------------------------------------------------------------------
(* C20 *)

\* the number of bytes the read of this iteration returned
BytesRead == event + length

\* C20: every event the inotify decoder hands on lies within the bytes the
\* read returned, header and name field of the declared length together:
\* cursor + 16 + len <= bytes read
C20_RecordWithinBytesRead ==
    (prog = "inotify" /\ length >= 0) =>
        \A k \in 1..Len(decoded) :
           decoded[k].at + IN_EVENT_DATA_LEN + decoded[k].len <= BytesRead

====
